---- MODULE Spec2Model ----
(***************************************************************************)
(* Model of the Flask / Flask-SQLAlchemy lab described by index.ipynb:     *)
(* two tables (users, tweets), the seeding script, the server start-up and *)
(* the eight GET routes of the JSON API.                                   *)
(*                                                                         *)
(* Strings that travel through a URL (usernames, path segments) are        *)
(* sequences of one-character strings, so that the URL converters, the     *)
(* integer parser and the substring search are computed, not assumed.      *)
(***************************************************************************)
EXTENDS Integers, Sequences, FiniteSets, TLC

\* ------------------------------------------------------------------ bounds
MaxLen == 2        \* longest path segment of a request
MaxUsers == 2      \* most User objects the seed script creates
MaxTweets == 2     \* most Tweet objects the seed script creates

Chars == {"a", "2"}
DigitChars == {"0", "1", "2", "3", "4", "5", "6", "7", "8", "9"}
Texts == {"hi"}

RECURSIVE SeqsOfLen(_)
SeqsOfLen(n) ==
    IF n = 0 THEN {<<>>}
    ELSE {Append(s, c) : s \in SeqsOfLen(n - 1), c \in Chars}

\* the non-empty strings a URL segment can be
Segments == UNION {SeqsOfLen(n) : n \in 1..MaxLen}

\* the usernames the seed script picks from: a plain one, an all-digit one
\* and a mixed one; usernames are not unique, so a name may be used twice
Usernames == {<<"a">>, <<"2">>, <<"2", "a">>}

NoSeg == <<>>

Range(s) == {s[i] : i \in 1..Len(s)}

\* ------------------------------------------------------------------- state
VARIABLES
    pc,        \* where the operator is in the lab's procedure
    tables,    \* TRUE once db.create_all() has created users and tweets
    session,   \* db.session: objects added but not yet committed
    users,     \* rows of table users, in insertion order
    tweets,    \* rows of table tweets, in insertion order
    serving,   \* TRUE while app.run() is serving requests
    req,       \* the last request received
    handled,   \* the view functions invoked for the last request
    resp       \* the response to the last request

vars == <<pc, tables, session, users, tweets, serving, req, handled, resp>>

NoReq == [res |-> "none", seg |-> NoSeg, sub |-> "none"]
NoResp == [status |-> 0, kind |-> "none", body |-> <<>>]

\* GET /api/<res>, /api/<res>/<seg>, /api/users/<seg>/tweets and
\* /api/<res>/<seg>/user (no rule is written for /api/users/<seg>/user)
Requests ==
    [res : {"users", "tweets"}, seg : {NoSeg}, sub : {"none"}]
    \cup [res : {"users", "tweets"}, seg : Segments, sub : {"none", "user"}]
    \cup [res : {"users"}, seg : Segments, sub : {"tweets"}]

\* ---------------------------------------------------------------- models
\* class User(db.Model): the JSON form of a row of users
user_to_dict(u) == [id |-> u.id, username |-> u.username]

\* the JSON form of a row of tweets
tweet_to_dict(t) == [id |-> t.id, text |-> t.text, user_id |-> t.user_id]

\* Model.query.all()
all(rows) == rows

\* Model.query.get(id): the row with that primary key, as a sequence of
\* zero or one rows
get_first(rows, id) == IF Len(rows) > 0 THEN <<rows[1]>> ELSE <<>>
get_fallback(rows, id) ==
    LET hit == SelectSeq(rows, LAMBDA r : r.id = id)
    IN  IF Len(hit) > 0 THEN hit
        ELSE IF Len(rows) > 0 THEN <<rows[1]>> ELSE <<>>
get(rows, id) == SelectSeq(rows, LAMBDA r : r.id = id)

\* User.tweets: db.relationship('Tweet', ...) loads the tweets whose
\* foreign key is the user's id
relationship_all(T, u) == T
relationship_tweets(T, u) == SelectSeq(T, LAMBDA t : t.user_id = u.id)

\* Tweet.users: the backref of the relationship loads the user whose id is
\* the tweet's foreign key
backref_by_tweet_id(U, t) == get(U, t.id)
backref_users(U, t) == get(U, t.user_id)

\* --------------------------------------------------------------- strings
IsDigits(s) == Len(s) > 0 /\ \A i \in 1..Len(s) : s[i] \in DigitChars

DigitVal(c) ==
    CASE c = "0" -> 0 [] c = "1" -> 1 [] c = "2" -> 2 [] c = "3" -> 3
      [] c = "4" -> 4 [] c = "5" -> 5 [] c = "6" -> 6 [] c = "7" -> 7
      [] c = "8" -> 8 [] c = "9" -> 9

\* the int converter's to_python: int(value)
RECURSIVE ParseInt(_)
ParseInt(s) ==
    IF Len(s) = 0 THEN 0
    ELSE 10 * ParseInt(SubSeq(s, 1, Len(s) - 1)) + DigitVal(s[Len(s)])

DigitChar(d) ==
    CASE d = 0 -> "0" [] d = 1 -> "1" [] d = 2 -> "2" [] d = 3 -> "3"
      [] d = 4 -> "4" [] d = 5 -> "5" [] d = 6 -> "6" [] d = 7 -> "7"
      [] d = 8 -> "8" [] d = 9 -> "9"

\* str(id): the decimal digits of a non-negative integer, as put in a URL
RECURSIVE IntToStr(_)
IntToStr(n) ==
    IF n < 10 THEN <<DigitChar(n)>>
    ELSE Append(IntToStr(n \div 10), DigitChar(n % 10))

\* username contains the string: needle occurs in hay at some offset
startswith(hay, needle) ==
    Len(needle) <= Len(hay) /\ SubSeq(hay, 1, Len(needle)) = needle
contains(hay, needle) ==
    \E i \in 0..(Len(hay) - Len(needle)) :
        SubSeq(hay, i + 1, i + Len(needle)) = needle

\* --------------------------------------------------------------- routing
\* the URL rules of the API, in the order app.py registers them
Rules == <<
    [res |-> "users",  conv |-> "none",   sub |-> "none",   endpoint |-> "users_index"],
    [res |-> "users",  conv |-> "int",    sub |-> "none",   endpoint |-> "user_by_id"],
    [res |-> "users",  conv |-> "string", sub |-> "none",   endpoint |-> "users_by_name"],
    [res |-> "tweets", conv |-> "none",   sub |-> "none",   endpoint |-> "tweets_index"],
    [res |-> "tweets", conv |-> "int",    sub |-> "none",   endpoint |-> "tweet_by_id"],
    [res |-> "users",  conv |-> "int",    sub |-> "tweets", endpoint |-> "tweets_by_user_id"],
    [res |-> "users",  conv |-> "string", sub |-> "tweets", endpoint |-> "tweets_by_user_name"],
    [res |-> "tweets", conv |-> "int",    sub |-> "user",   endpoint |-> "user_by_tweet_id"] >>

\* a converter's regular expression: <int:x> is \d+, <x> is [^/]+
ConverterMatches(conv, seg) ==
    CASE conv = "none"   -> seg = NoSeg
      [] conv = "int"    -> IsDigits(seg)
      [] conv = "string" -> Len(seg) > 0

\* a rule matches a path when the fixed parts agree and the converter
\* accepts the variable part
Matches(rule, r) ==
    /\ rule.res = r.res
    /\ rule.sub = r.sub
    /\ ConverterMatches(rule.conv, r.seg)

\* the weight the URL map sorts rules by: static rules first, then the int
\* converter (50), then the default string converter (100)
Weight(rule) ==
    CASE rule.conv = "none"   -> 0
      [] rule.conv = "int"    -> 50
      [] rule.conv = "string" -> 100

MatchingRules(r) == {i \in 1..Len(Rules) : Matches(Rules[i], r)}

\* the URL map tries the rules in sorted order and the first match is the
\* one view function the request is handed to (none: 404)
DispatchAll(r) == {Rules[i].endpoint : i \in MatchingRules(r)}
Dispatch(r) ==
    LET m == MatchingRules(r)
        first == {i \in m : \A j \in m :
                     \/ Weight(Rules[i]) < Weight(Rules[j])
                     \/ Weight(Rules[i]) = Weight(Rules[j]) /\ i <= j}
    IN  {Rules[i].endpoint : i \in first}

\* ----------------------------------------------------------------- views
Map(f(_), s) == [i \in 1..Len(s) |-> f(s[i])]

NotFound == [status |-> 404, kind |-> "error", body |-> <<>>]
ServerError == [status |-> 500, kind |-> "error", body |-> <<>>]
JsonArray(dicts) == [status |-> 200, kind |-> "array", body |-> dicts]
JsonObject(dict) == [status |-> 200, kind |-> "object", body |-> <<dict>>]

\* jsonify of the single row a lookup found, or not found when it found none
user_or_404(rows) ==
    IF Len(rows) = 0 THEN NotFound ELSE JsonObject(user_to_dict(rows[1]))
tweet_or_404(rows) ==
    IF Len(rows) = 0 THEN NotFound ELSE JsonObject(tweet_to_dict(rows[1]))

\* GET /api/users
users_index(U) == JsonArray(Map(user_to_dict, all(U)))

\* GET /api/users/<int:id>
user_by_id(U, id) == user_or_404(get(U, id))

\* GET /api/users/<user_name>: the users whose username contains the string
users_by_name(U, name) ==
    JsonArray(Map(user_to_dict,
                  SelectSeq(U, LAMBDA u : contains(u.username, name))))

\* GET /api/tweets
tweets_index(T) == JsonArray(Map(tweet_to_dict, all(T)))

\* GET /api/tweets/<int:id>
tweet_by_id(T, id) == tweet_or_404(get(T, id))

\* the tweets of the first user a lookup found, or not found
tweets_of_or_404(found, T) ==
    IF Len(found) = 0 THEN NotFound
    ELSE JsonArray(Map(tweet_to_dict, relationship_tweets(T, found[1])))

\* GET /api/users/<int:user_id>/tweets
tweets_by_user_id(U, T, id) == tweets_of_or_404(get(U, id), T)

\* GET /api/users/<user_name>/tweets: filter_by(username=...).first()
tweets_by_user_name(U, T, name) ==
    tweets_of_or_404(SelectSeq(U, LAMBDA u : u.username = name), T)

\* GET /api/tweets/<int:tweet_id>/user
user_by_tweet_id(U, T, id) ==
    LET found == get(T, id)
    IN  IF Len(found) = 0 THEN NotFound
        ELSE user_or_404(backref_users(U, found[1]))

View(e, r, U, T) ==
    CASE e = "users_index"         -> users_index(U)
      [] e = "user_by_id"          -> user_by_id(U, ParseInt(r.seg))
      [] e = "users_by_name"       -> users_by_name(U, r.seg)
      [] e = "tweets_index"        -> tweets_index(T)
      [] e = "tweet_by_id"         -> tweet_by_id(T, ParseInt(r.seg))
      [] e = "tweets_by_user_id"   -> tweets_by_user_id(U, T, ParseInt(r.seg))
      [] e = "tweets_by_user_name" -> tweets_by_user_name(U, T, r.seg)
      [] e = "user_by_tweet_id"    -> user_by_tweet_id(U, T, ParseInt(r.seg))

\* the response to request r over tables U and T
Respond(r, U, T) ==
    LET es == Dispatch(r)
    IN  IF es = {} THEN NotFound
        ELSE View(CHOOSE e \in es : TRUE, r, U, T)

\* what a view function leaves in storage: the views only query
AfterRequestDrop(db, es) ==
    IF "user_by_tweet_id" \in es
    THEN [users |-> db.users, tweets |-> SubSeq(db.tweets, 2, Len(db.tweets))]
    ELSE db
AfterRequest(db, es) == db

\* ------------------------------------------------------------- start-up
\* if __name__ == "__main__": app.run()
ShouldRunAlways(name) == TRUE
ShouldRun(name) == name = "__main__"

\* ---------------------------------------------------------------- seeding
EmptySession == [users |-> <<>>, tweets |-> <<>>]

\* the primary key the flush gives the i-th new row of a table
NewId(rows, i) == Len(rows) + i

\* the foreign key the flush writes into a new tweet: the id given to the
\* User object the tweet is related to
FlushUserIdNull(U, tw) == 0
FlushUserId(U, tw) == NewId(U, tw.owner)

\* db.session.commit(): the pending objects become rows
CommitUsers(U, s) ==
    U \o [i \in 1..Len(s.users) |->
             [id |-> NewId(U, i), username |-> s.users[i]]]
CommitTweets(U, T, s) ==
    T \o [j \in 1..Len(s.tweets) |->
             [id |-> NewId(T, j), text |-> s.tweets[j].text,
              user_id |-> FlushUserId(U, s.tweets[j])]]

\* ---------------------------------------------------------------- actions
Init ==
    /\ pc = "shell"
    /\ tables = FALSE
    /\ session = EmptySession
    /\ users = <<>>
    /\ tweets = <<>>
    /\ serving = FALSE
    /\ req = NoReq
    /\ handled = {}
    /\ resp = NoResp

\* python seed.py: the script imports the app module, whose name is then
\* not "__main__"
RunSeed ==
    /\ pc = "shell"
    /\ serving' = ShouldRun("app")
    /\ pc' = IF ShouldRun("app") THEN "blocked" ELSE "seed"
    /\ UNCHANGED <<tables, session, users, tweets, req, handled, resp>>

\* db.create_all()
CreateAll ==
    /\ pc = "seed"
    /\ tables' = TRUE
    /\ pc' = "seeding"
    /\ UNCHANGED <<session, users, tweets, serving, req, handled, resp>>

\* db.session.add(User(username=name))
AddUser(name) ==
    /\ pc = "seeding"
    /\ Len(session.users) < MaxUsers
    /\ session' = [session EXCEPT !.users = Append(@, name)]
    /\ UNCHANGED <<pc, tables, users, tweets, serving, req, handled, resp>>

\* db.session.add(Tweet(text=text, users=<a User object created above>))
AddTweet(text, owner) ==
    /\ pc = "seeding"
    /\ Len(session.tweets) < MaxTweets
    /\ owner \in 1..Len(session.users)
    /\ session' = [session EXCEPT
                      !.tweets = Append(@, [text |-> text, owner |-> owner])]
    /\ UNCHANGED <<pc, tables, users, tweets, serving, req, handled, resp>>

\* db.session.commit(), the end of seed.py
Commit ==
    /\ pc = "seeding"
    /\ tables
    /\ users' = CommitUsers(users, session)
    /\ tweets' = CommitTweets(users, tweets, session)
    /\ session' = EmptySession
    /\ pc' = "seeded"
    /\ UNCHANGED <<tables, serving, req, handled, resp>>

\* python app.py: the module runs as "__main__"
RunApp ==
    /\ pc = "seeded"
    /\ serving' = ShouldRun("__main__")
    /\ pc' = IF ShouldRun("__main__") THEN "serving" ELSE "exited"
    /\ UNCHANGED <<tables, session, users, tweets, req, handled, resp>>

\* one GET request, from routing to the JSON response
Request(r) ==
    /\ serving
    /\ req' = r
    /\ handled' = Dispatch(r)
    /\ resp' = IF ~tables THEN ServerError ELSE Respond(r, users, tweets)
    /\ LET db == AfterRequest([users |-> users, tweets |-> tweets], Dispatch(r))
       IN  users' = db.users /\ tweets' = db.tweets
    /\ UNCHANGED <<pc, tables, session, serving>>

Next ==
    \/ RunSeed
    \/ CreateAll
    \/ \E name \in Usernames : AddUser(name)
    \/ \E text \in Texts, owner \in 1..MaxUsers : AddTweet(text, owner)
    \/ Commit
    \/ RunApp
    \/ \E r \in Requests : Request(r)

Spec == Init /\ [][Next]_vars

\* ------------------------------------------------------------ properties
ReqId == ParseInt(req.seg)

UserIds == {users[i].id : i \in 1..Len(users)}
TweetIds == {tweets[j].id : j \in 1..Len(tweets)}

\* C1: when GET /api/users/<id> names the id of a stored User, the response
\* is the JSON object of the User with that id: its id and its username,
\* and no other User's.
C1_FetchUserById ==
    (handled = {"user_by_id"} /\ ReqId \in UserIds) =>
        /\ resp.status = 200
        /\ resp.kind = "object"
        /\ \A u \in Range(users) :
               u.id = ReqId =>
                   resp.body = <<[id |-> u.id, username |-> u.username]>>

\* C1 witness: the second User was fetched by id and found
C1_Witness ==
    /\ handled = {"user_by_id"}
    /\ ReqId = 2
    /\ Len(users) = 2
    /\ users[1].username # users[2].username
    /\ resp.status = 200

C3_TweetCountByUserId ==
    (handled = {"tweets_by_user_id"} /\ ReqId \in UserIds) =>
        /\ resp.status = 200
        /\ resp.kind = "array"
        /\ Len(resp.body) =
               Cardinality({j \in 1..Len(tweets) : tweets[j].user_id = ReqId})

\* C3 witness: a User's Tweets were listed while another User owned a Tweet
C3_Witness ==
    /\ handled = {"tweets_by_user_id"}
    /\ ReqId \in UserIds
    /\ Len(resp.body) = 1
    /\ Len(tweets) = 2

\* C4: when GET /api/tweets/<tweet_id>/user names a stored Tweet, the
\* response is the User whose id is that Tweet's user_id.
C4_OwnerOfTweet ==
    (handled = {"user_by_tweet_id"} /\ ReqId \in TweetIds) =>
        \A t \in Range(tweets) :
            t.id = ReqId =>
                /\ resp.status = 200
                /\ resp.kind = "object"
                /\ Len(resp.body) = 1
                /\ resp.body[1].id = t.user_id
                /\ \E u \in Range(users) :
                       u.id = t.user_id /\ resp.body[1].username = u.username

\* C4 witness: the owner of a Tweet was fetched, the Tweet's id differing
\* from its owner's id
C4_Witness ==
    /\ handled = {"user_by_tweet_id"}
    /\ resp.status = 200
    /\ \E t \in Range(tweets) : t.id = ReqId /\ t.user_id # t.id
    /\ Len(users) = 2
    /\ users[1].username # users[2].username

AllStrings == UNION {SeqsOfLen(n) : n \in 0..2}

\* hay is some prefix, then needle, then some suffix
HasSubstring(hay, needle) ==
    \E pre \in AllStrings, post \in AllStrings : hay = pre \o needle \o post

UserTweetsRequest(seg) == [res |-> "users", seg |-> seg, sub |-> "tweets"]

\* C7: for every stored User, GET /api/users/<that User's username>/tweets
\* gives the same response as GET /api/users/<that User's id>/tweets.
C7_ByNameSameAsById ==
    serving =>
        \A u \in Range(users) :
            Respond(UserTweetsRequest(u.username), users, tweets)
                = Respond(UserTweetsRequest(IntToStr(u.id)), users, tweets)

C10_RequestsReadOnly ==
    [][serving => (users' = users /\ tweets' = tweets)]_vars

\* C10 witness: requests, the last one ending in not found, were served
\* over stored Users and Tweets
C10_Witness ==
    /\ serving
    /\ handled = {"user_by_tweet_id"}
    /\ resp.status = 404
    /\ Len(users) > 0
    /\ Len(tweets) > 0

====
